---- MODULE Spec2Model ----
(***************************************************************************)
(* Processing-job orchestration of the video summarizer backend:           *)
(* the ProcessingJob document (models/ProcessingJob.js) with its instance  *)
(* and static methods, the start, cancel and status handlers of the        *)
(* processing and upload controllers, the video deletion handler, the      *)
(* queue workers and the TTL index on expiresAt.                           *)
(***************************************************************************)
EXTENDS Integers, Sequences, FiniteSets, TLC

\* job:     the stored ProcessingJob of the video, or NoJob
\* video:   the status of the stored Video, or "absent"
\* queue:   entries of the video in the video-processing queue
\* now:     the clock, in days
\* last:    the last call and its outcome
\* reqs:    the startProcessing requests in flight
\* workers: the queue workers
\* snap:    the job document each worker holds in memory, and whether the
\*          worker has read it at the boundary of the stage it runs
\* jobs:    the processing_jobs collection that findPendingJobs queries
\* found:   what the last findPendingJobs returned
VARIABLES job, video, queue, now, last, reqs, workers, snap, jobs, found

vars == <<job, video, queue, now, last, reqs, workers, snap, jobs, found>>

-----------------------------------------------------------------------------
(* Bounds of the model *)

\* the last day of the clock
MaxClock == 8

\* startProcessing requests and queue workers in a run
NumReqs == 2
NumWorkers == 2

\* documents in the collection that findPendingJobs queries
MaxJobs == 3

-----------------------------------------------------------------------------
(* Schema of ProcessingJob *)

StageNames == {"upload", "transcription", "summarization"}

JobStatuses == {"pending", "processing", "completed", "failed", "cancelled"}

StageStatuses == {"pending", "processing", "completed", "failed"}

VideoStatuses == {"uploaded", "processing", "completed", "failed", "deleted"}

\* a schema that requires videoId only
RequiredFieldsVideoIdOnly == {"videoId"}

RequiredFields == {"jobId", "videoId", "jobType", "queueName"}

DefaultMaxRetries == 3

RetryCountMax == 3

ProgressMin == 0

ProgressMax == 100

\* expiresAt default: 7 days after creation (the clock counts days)
TTLDays == 7

None == "none"

NoJob == [status |-> "absent"]

\* no error: `error` is not set
NoError == [message |-> None, code |-> None]

\* a stage record: its status, its progress, whether its completedAt is set
DefaultStage == [status |-> "pending", progress |-> 0, completedAt |-> FALSE]

\* the document built by `new ProcessingJob(fields)` from the schema defaults
NewJob(maxRetries, createdAt) ==
    [status          |-> "pending",
     stages          |-> [s \in StageNames |-> DefaultStage],
     overallProgress |-> 0,
     error           |-> NoError,
     retryCount      |-> 0,
     maxRetries      |-> maxRetries,
     completedAt     |-> FALSE,
     expiresAt       |-> createdAt + TTLDays]

-----------------------------------------------------------------------------
(* Progress aggregation *)

\* stage weights of updateProgress, in tenths
stageWeights == [upload |-> 1, transcription |-> 6, summarization |-> 3]

\* Triples <<upload, transcription, summarization>> of stage progresses of the
\* input grid for which the IEEE-754 double evaluation of
\*   0 + upload*0.1 + transcription*0.6 + summarization*0.3
\* (accumulated in this order) falls just below an exact .5 tie, so that
\* Math.round returns the lower integer.
\*   1*0.6 = 0.6, 23*0.3 = 6.8999999999999995, 0.6 + 6.8999999999999995 =
\*   7.499999999999999, Math.round(7.499999999999999) = 7
DoubleBelowTie == {<<0, 1, 23>>}

\* Math.round(totalProgress) as the loop of updateProgress computes it
WeightedProgress(stages) ==
    LET u == stages["upload"].progress
        t == stages["transcription"].progress
        s == stages["summarization"].progress
        tenths == stageWeights.upload * u + stageWeights.transcription * t
                    + stageWeights.summarization * s
    IN  IF <<u, t, s>> \in DoubleBelowTie
        THEN tenths \div 10
        ELSE (tenths + 5) \div 10

-----------------------------------------------------------------------------
(* Persistence: schema validation, pre('save') hook, save *)

\* the built-in validation Mongoose runs before the save hooks
Validates(d) ==
    /\ d.status \in JobStatuses
    /\ \A s \in StageNames :
          /\ d.stages[s].status \in StageStatuses
          /\ d.stages[s].progress >= ProgressMin
          /\ d.stages[s].progress <= ProgressMax
    /\ d.overallProgress >= ProgressMin
    /\ d.overallProgress <= ProgressMax
    /\ d.retryCount >= 0
    /\ d.retryCount <= RetryCountMax
    /\ d.maxRetries >= 0

\* pre('save') without the check of the job's status
preSaveAnyStatus(d) ==
    IF \A s \in StageNames : d.stages[s].status = "completed"
    THEN [d EXCEPT !.status = "completed", !.completedAt = TRUE]
    ELSE d

\* pre('save') that also waits for a cleanup stage
preSaveWithCleanup(d) ==
    IF d.status = "processing"
       /\ \A s \in StageNames \cup {"cleanup"} :
             s \in DOMAIN d.stages /\ d.stages[s].status = "completed"
    THEN [d EXCEPT !.status = "completed", !.completedAt = TRUE]
    ELSE d

\* pre('save'): auto-completion of a processing job whose stages are all completed
preSave(d) ==
    IF d.status = "processing"
       /\ \A s \in StageNames : d.stages[s].status = "completed"
    THEN [d EXCEPT !.status = "completed", !.completedAt = TRUE]
    ELSE d

\* document.save(): the stored record afterwards, given the stored record before
save(d, stored) == IF Validates(d) THEN preSave(d) ELSE stored

saveResult(d) == IF Validates(d) THEN "ok" ELSE "ValidationError"

\* save() of the in-memory document d that was read as `loaded`: it writes the
\* paths that d changed, after the hook, onto the stored record; a document
\* that is no longer stored is not written (DocumentNotFoundError)
saveModified(d, loaded, stored) ==
    IF stored = NoJob \/ ~Validates(d)
    THEN stored
    ELSE LET d2 == preSave(d)
             path(f) == IF d2[f] # loaded[f] THEN d2[f] ELSE stored[f]
             stagePath(s, k) == IF d2.stages[s][k] # loaded.stages[s][k]
                                THEN d2.stages[s][k]
                                ELSE stored.stages[s][k]
         IN  [f \in DOMAIN stored |->
                 IF f = "stages"
                 THEN [s \in StageNames |->
                         [k \in DOMAIN stored.stages[s] |-> stagePath(s, k)]]
                 ELSE path(f)]

-----------------------------------------------------------------------------
(* Instance methods of the document, as functions on the in-memory document *)

\* updateProgress that assigns the status inside the loop over the weights,
\* to every stage
updateProgressDocAllStages(d, stage, progress, status) ==
    IF stage \in DOMAIN d.stages
    THEN LET st == [s \in DOMAIN d.stages |->
                      [d.stages[s] EXCEPT
                         !.progress = IF s = stage THEN progress ELSE @,
                         !.status = IF status # None THEN status ELSE @]]
         IN  [d EXCEPT !.stages = st, !.overallProgress = WeightedProgress(st)]
    ELSE d

updateProgressDoc(d, stage, progress, status) ==
    IF stage \in DOMAIN d.stages
    THEN LET st == [d.stages EXCEPT
                      ![stage].progress = progress,
                      ![stage].status = IF status # None THEN status ELSE @]
         IN  [d EXCEPT !.stages = st, !.overallProgress = WeightedProgress(st)]
    ELSE d

markStageCompleteDoc(d, stage) ==
    LET d1 == IF stage \in DOMAIN d.stages
              THEN [d EXCEPT !.stages[stage] =
                               [status |-> "completed", progress |-> 100,
                                completedAt |-> TRUE]]
              ELSE d
    IN  updateProgressDoc(d1, stage, 100, "completed")

errorCode(error) == IF error.code # None THEN error.code ELSE "PROCESSING_ERROR"

\* markStageFailed that puts a job with retries left back to pending by itself
markStageFailedDocAutoRetry(d, stage, error) ==
    LET d1 == IF stage \in DOMAIN d.stages
              THEN [d EXCEPT !.stages[stage].status = "failed",
                             !.stages[stage].completedAt = TRUE]
              ELSE d
        again == d.retryCount < d.maxRetries
    IN  [d1 EXCEPT !.error = [message |-> error.message, code |-> errorCode(error)],
                   !.status = IF again THEN "pending" ELSE "failed",
                   !.retryCount = IF again THEN @ + 1 ELSE @]

markStageFailedDoc(d, stage, error) ==
    LET d1 == IF stage \in DOMAIN d.stages
              THEN [d EXCEPT !.stages[stage].status = "failed",
                             !.stages[stage].completedAt = TRUE]
              ELSE d
    IN  [d1 EXCEPT !.error = [message |-> error.message, code |-> errorCode(error)],
                   !.status = "failed"]

\* canRetry with the retry limit off by one
canRetryOffByOne(d) == d.retryCount <= d.maxRetries /\ d.status = "failed"

\* canRetry without the check of the status
canRetryAnyStatus(d) == d.retryCount < d.maxRetries

canRetry(d) == d.retryCount < d.maxRetries /\ d.status = "failed"

\* retry that also resets the failed stages and the progress
retryDocResetStages(d) ==
    LET st == [s \in DOMAIN d.stages |->
                  IF d.stages[s].status = "failed" THEN DefaultStage ELSE d.stages[s]]
    IN  [d EXCEPT !.retryCount = @ + 1, !.status = "pending", !.error = NoError,
                  !.stages = st, !.overallProgress = WeightedProgress(st)]

retryDoc(d) ==
    [d EXCEPT !.retryCount = @ + 1, !.status = "pending", !.error = NoError]

-----------------------------------------------------------------------------
(* Inputs *)

\* stage names handed to the stage methods: the schema's stages and one that
\* the schema does not have
StageInputs == StageNames \cup {"cleanup"}

\* argument tuples <<stage, progress, status>> handed to updateProgress
UpdateInputs ==
    { <<"upload", 100, "completed">>,
      <<"transcription", 1, "processing">>,
      <<"summarization", 23, "processing">>,
      <<"upload", 0, None>>,
      <<"upload", 150, None>>,
      <<"summarization", 100, "invalid">>,
      <<"cleanup", 100, "completed">> }

ErrorInputs == {[message |-> "timeout", code |-> None]}

\* fields the controllers give to `new ProcessingJob(...)` that the schema has
\* (`steps` is not in the schema and is dropped)
ControllerFields == {"videoId", "status", "createdAt"}

\* fields given to `new ProcessingJob(...)`: all required ones, what the
\* controllers give, and all required ones but videoId
CreateInputs == {RequiredFields, ControllerFields, RequiredFields \ {"videoId"}}

MaxRetriesInputs == {1, DefaultMaxRetries}

\* the progress a worker reports in the middle of a stage
ReportedProgress == 50

\* the documents of the collection findPendingJobs is run on: the fields the
\* query reads
JobTypes == {"transcription", "summarization", "complete_processing", "cleanup"}

JobTypeInputs == {"transcription", "complete_processing"}

PriorityInputs == {0, 1}

CreatedAtInputs == {1, 2}

JobDocs ==
    [status : {"pending", "processing"}, jobType : JobTypeInputs,
     priority : PriorityInputs, createdAt : CreatedAtInputs]

\* days the clock advances in one step
TickDays == {4}

\* required fields of the Video schema, and what uploadVideo gives
VideoRequiredFields ==
    {"title", "originalFileName", "fileName", "fileSize", "mimeType",
     "cloudinaryId", "cloudinaryUrl"}

UploadFields ==
    {"_id", "title", "description", "originalFilename", "fileSize", "mimeType",
     "localPath", "status", "uploadedAt"}

Reqs == 1..NumReqs

Workers == 1..NumWorkers

\* a worker that holds no document
NoSnap == [doc |-> NoJob, fresh |-> FALSE]

\* no findPendingJobs call has returned yet
NoResult == [jobType |-> None, docs |-> <<>>, done |-> FALSE]

\* a startProcessing request: where it is, the job status it loaded, its response
NewReq == [pc |-> "new", seen |-> None, res |-> None]

\* the last call: its name, its outcome, the job's status before it, the
\* socket event it emitted
Result(op, res, pre, emitted) ==
    [op |-> op, res |-> res, pre |-> pre, emitted |-> emitted]

-----------------------------------------------------------------------------
(* Initial state: one stored video, no job *)

Init ==
    /\ job = NoJob
    /\ video = "uploaded"
    /\ queue = 0
    /\ now = 0
    /\ last = Result("init", "ok", "absent", None)
    /\ reqs = [r \in Reqs |-> NewReq]
    /\ workers = [w \in Workers |-> "idle"]
    /\ snap = [w \in Workers |-> NoSnap]
    /\ jobs = <<>>
    /\ found = NoResult

-----------------------------------------------------------------------------
(* Operations on the job document *)

\* the stored job after `new ProcessingJob(fields).save()`
created(fields, maxRetries, stored) ==
    IF RequiredFields \subseteq fields THEN NewJob(maxRetries, now) ELSE stored

createResult(fields) ==
    IF RequiredFields \subseteq fields THEN "ok" ELSE "ValidationError"

\* deleting the stored job: a startProcessing request about to delete it finds
\* it gone, and a worker running it is left with a document that is not stored
forgetReqs(rs) ==
    [r \in Reqs |-> IF rs[r].pc = "deleteJob" THEN [rs[r] EXCEPT !.seen = "gone"] ELSE rs[r]]

forgetWorkers(ws) ==
    [w \in Workers |-> IF ws[w] = "active" THEN "orphan" ELSE ws[w]]

create(fields, maxRetries) ==
    /\ job = NoJob
    /\ job' = created(fields, maxRetries, job)
    /\ last' = Result(IF "videoId" \in fields THEN "create" ELSE "createNoVideoId",
                      createResult(fields), "absent", None)
    /\ UNCHANGED <<video, queue, now, reqs, workers, snap, jobs, found>>

\* claim(jobId): pending -> processing, atomically
claimed(d) == IF d.status = "pending" THEN [d EXCEPT !.status = "processing"] ELSE d

claim ==
    /\ job # NoJob
    /\ job' = claimed(job)
    /\ last' = Result("claim",
                      IF job.status = "pending" THEN "ok" ELSE "ConcurrencyError",
                      job.status, None)
    /\ UNCHANGED <<video, queue, now, reqs, workers, snap, jobs, found>>

updateProgress(stage, progress, status) ==
    /\ job # NoJob
    /\ LET d == updateProgressDoc(job, stage, progress, status)
       IN  /\ job' = save(d, job)
           /\ last' = Result("updateProgress", saveResult(d), job.status, None)
    /\ UNCHANGED <<video, queue, now, reqs, workers, snap, jobs, found>>

markStageComplete(stage) ==
    /\ job # NoJob
    /\ LET d == markStageCompleteDoc(job, stage)
       IN  /\ job' = save(d, job)
           /\ last' = Result("markStageComplete", saveResult(d), job.status, None)
    /\ UNCHANGED <<video, queue, now, reqs, workers, snap, jobs, found>>

markStageFailed(stage, error) ==
    /\ job # NoJob
    /\ LET d == markStageFailedDoc(job, stage, error)
       IN  /\ job' = save(d, job)
           /\ last' = Result("markStageFailed", saveResult(d), job.status, None)
    /\ UNCHANGED <<video, queue, now, reqs, workers, snap, jobs, found>>

retry ==
    /\ job # NoJob
    /\ IF canRetry(job)
       THEN LET d == retryDoc(job)
            IN  /\ job' = save(d, job)
                /\ last' = Result("retry", saveResult(d), job.status, None)
       ELSE /\ job' = job
            /\ last' = Result("retry", "Error", job.status, None)
    /\ UNCHANGED <<video, queue, now, reqs, workers, snap, jobs, found>>

-----------------------------------------------------------------------------
(* Controllers *)

\* video.status = status; video.save(): the Video schema's enum decides
videoAcceptsStatus(status) == status \in VideoStatuses

\* processingController.cancelProcessing
cancelProcessing ==
    /\ IF job = NoJob
       THEN /\ job' = job
            /\ last' = Result("cancelProcessing", "404", "absent", None)
       ELSE IF job.status = "completed" \/ job.status = "cancelled"
       THEN /\ job' = job
            /\ last' = Result("cancelProcessing", "400", job.status, None)
       ELSE LET d == [job EXCEPT !.status = "cancelled"]
            IN  /\ job' = save(d, job)
                /\ last' = IF video # "absent" /\ ~videoAcceptsStatus("cancelled")
                           THEN Result("cancelProcessing", "500", job.status, None)
                           ELSE Result("cancelProcessing", "200", job.status,
                                       "processing-cancelled")
    /\ video' = IF job # NoJob /\ job.status \notin {"completed", "cancelled"}
                   /\ video # "absent" /\ videoAcceptsStatus("cancelled")
                THEN "cancelled" ELSE video
    /\ UNCHANGED <<queue, now, reqs, workers, snap, jobs, found>>

\* uploadController.cancelUpload
cancelUpload ==
    /\ IF job = NoJob
       THEN /\ job' = job
            /\ last' = Result("cancelUpload", "404", "absent", None)
       ELSE LET d == [job EXCEPT !.status = "cancelled"]
            IN  /\ job' = save(d, job)
                /\ last' = IF video # "absent" /\ ~videoAcceptsStatus("cancelled")
                           THEN Result("cancelUpload", "500", job.status, None)
                           ELSE Result("cancelUpload", "200", job.status,
                                       "processing-cancelled")
    /\ video' = IF job # NoJob /\ video # "absent" /\ videoAcceptsStatus("cancelled")
                THEN "cancelled" ELSE video
    /\ UNCHANGED <<queue, now, reqs, workers, snap, jobs, found>>

\* videoController.deleteVideo
deleteVideo ==
    /\ IF video = "absent"
       THEN /\ UNCHANGED <<job, video, reqs, workers>>
            /\ last' = Result("deleteVideo", "404", job.status, None)
       ELSE /\ job' = NoJob
            /\ video' = "absent"
            /\ reqs' = forgetReqs(reqs)
            /\ workers' = forgetWorkers(workers)
            /\ last' = Result("deleteVideo", "200", job.status, "video-deleted")
    /\ UNCHANGED <<queue, now, snap, jobs, found>>

\* addToProcessingQueue that adds an entry on every call
addToProcessingQueueAlways(q) == q + 1

\* addToProcessingQueue(videoId, data): the queue of the video after the call;
\* enqueueing what is already enqueued is a no-op
addToProcessingQueue(q) == IF q = 0 THEN q + 1 ELSE q

\* uploadController.uploadVideo: saves the new video, then its job, then
\* enqueues it; the new video is the one observed when none is stored
uploadVideo(hasFile) ==
    LET videoOk == VideoRequiredFields \subseteq UploadFields
        jobOk   == RequiredFields \subseteq ControllerFields
        mine    == video = "absent" /\ job = NoJob
    IN  /\ video' = IF hasFile /\ videoOk /\ mine THEN "uploaded" ELSE video
        /\ job' = IF hasFile /\ videoOk /\ mine
                  THEN created(ControllerFields, DefaultMaxRetries, job)
                  ELSE job
        /\ queue' = IF hasFile /\ videoOk /\ jobOk /\ mine
                    THEN addToProcessingQueue(queue)
                    ELSE queue
        /\ last' = IF ~hasFile
                   THEN Result("uploadVideo", "400", job.status, None)
                   ELSE IF ~(videoOk /\ jobOk)
                   THEN Result("uploadVideo", "500", job.status, None)
                   ELSE Result("uploadVideo", "201", job.status, "upload-complete")
        /\ UNCHANGED <<now, reqs, workers, snap, jobs, found>>

-----------------------------------------------------------------------------
(* processingController.startProcessing, one step per await *)

Done(r, seen, res) == [reqs EXCEPT ![r] = [pc |-> "done", seen |-> seen, res |-> res]]

Goto(r, pc, seen) == [reqs EXCEPT ![r] = [pc |-> pc, seen |-> seen, res |-> None]]

\* await Video.findById(videoId)
spFindVideo(r) ==
    /\ reqs[r].pc = "new"
    /\ reqs' = IF video = "absent" THEN Done(r, None, "404") ELSE Goto(r, "findJob", None)
    /\ UNCHANGED <<job, video, queue, now, last, workers, snap, jobs, found>>

\* await ProcessingJob.findOne({ videoId }) and the checks on what it returns
spFindJob(r, forceRestart) ==
    /\ reqs[r].pc = "findJob"
    /\ reqs' =
         IF job # NoJob /\ ~forceRestart /\ job.status \in {"processing", "completed"}
         THEN Done(r, job.status, "400")
         ELSE IF job = NoJob THEN Goto(r, "saveJob", "absent")
         ELSE IF forceRestart THEN Goto(r, "deleteJob", job.status)
         ELSE Goto(r, "saveVideo", job.status)
    /\ UNCHANGED <<job, video, queue, now, last, workers, snap, jobs, found>>

\* await ProcessingJob.findByIdAndDelete(processingJob._id)
spDeleteJob(r) ==
    /\ reqs[r].pc = "deleteJob"
    /\ IF reqs[r].seen = "gone"
       THEN /\ reqs' = Goto(r, "saveJob", "gone")
            /\ UNCHANGED <<job, workers>>
       ELSE /\ job' = NoJob
            /\ reqs' = [forgetReqs(reqs) EXCEPT
                           ![r] = [pc |-> "saveJob", seen |-> reqs[r].seen, res |-> None]]
            /\ workers' = forgetWorkers(workers)
    /\ UNCHANGED <<video, queue, now, last, snap, jobs, found>>

\* processingJob = new ProcessingJob({...}); await processingJob.save(): an
\* insert, which does not look for a job of the video; the index on videoId is
\* not unique, so a valid document is stored beside one that is already there
spSaveJob(r) ==
    /\ reqs[r].pc = "saveJob"
    /\ IF createResult(ControllerFields) = "ok"
       THEN /\ job' = IF job = NoJob
                      THEN created(ControllerFields, DefaultMaxRetries, job)
                      ELSE job
            /\ jobs' = IF job = NoJob
                       THEN jobs
                       ELSE Append(jobs, NewJob(DefaultMaxRetries, now))
            /\ reqs' = Goto(r, "saveVideo", "pending")
       ELSE /\ job' = job
            /\ jobs' = jobs
            /\ reqs' = Done(r, reqs[r].seen, "500")
    /\ UNCHANGED <<video, queue, now, last, workers, snap, found>>

\* video.status = 'processing'; await video.save()
spSaveVideo(r) ==
    /\ reqs[r].pc = "saveVideo"
    /\ IF video # "absent" /\ videoAcceptsStatus("processing")
       THEN /\ video' = "processing"
            /\ reqs' = Goto(r, "enqueue", reqs[r].seen)
       ELSE /\ video' = video
            /\ reqs' = Done(r, reqs[r].seen, "500")
    /\ UNCHANGED <<job, queue, now, last, workers, snap, jobs, found>>

\* await addToProcessingQueue(...); emit 'processing-started'; res.json(...)
spEnqueue(r) ==
    /\ reqs[r].pc = "enqueue"
    /\ queue' = addToProcessingQueue(queue)
    /\ reqs' = Done(r, reqs[r].seen, "200")
    /\ UNCHANGED <<job, video, now, last, workers, snap, jobs, found>>

-----------------------------------------------------------------------------
(* Queue workers *)

\* the stage a worker runs next: the first of the pipeline that is not completed
currentStage(d) ==
    IF d.stages["upload"].status # "completed" THEN "upload"
    ELSE IF d.stages["transcription"].status # "completed" THEN "transcription"
    ELSE "summarization"

\* a worker takes a queue entry and claims the video's job
workerTake(w) ==
    /\ workers[w] = "idle"
    /\ queue > 0
    /\ queue' = queue - 1
    /\ IF job # NoJob /\ job.status = "pending"
       THEN /\ job' = claimed(job)
            /\ workers' = [workers EXCEPT ![w] = "active"]
       ELSE UNCHANGED <<job, workers>>
    /\ UNCHANGED <<video, now, last, reqs, snap, jobs, found>>

\* at a stage boundary the worker finds its job cancelled or deleted and stops
workerAbort(w) ==
    /\ workers[w] \in {"active", "orphan"}
    /\ workers[w] = "orphan" \/ job.status # "processing"
    /\ workers' = [workers EXCEPT ![w] = "idle"]
    /\ UNCHANGED <<job, video, queue, now, last, reqs, snap, jobs, found>>

\* the worker's stage succeeds
workerComplete(w) ==
    /\ workers[w] = "active"
    /\ job.status = "processing"
    /\ LET d == markStageCompleteDoc(job, currentStage(job))
       IN  /\ job' = save(d, job)
           /\ workers' = [workers EXCEPT
                            ![w] = IF save(d, job).status = "completed" THEN "idle" ELSE @]
    /\ UNCHANGED <<video, queue, now, last, reqs, snap, jobs, found>>

\* the worker's stage fails
workerFail(w, error) ==
    /\ workers[w] = "active"
    /\ job.status = "processing"
    /\ job' = save(markStageFailedDoc(job, currentStage(job), error), job)
    /\ workers' = [workers EXCEPT ![w] = "idle"]
    /\ UNCHANGED <<video, queue, now, last, reqs, snap, jobs, found>>


-----------------------------------------------------------------------------
(* Queue workers that hold the job document across a stage *)

\* a worker claims the pending job and keeps the document the claim returns
workerLoad(w) ==
    /\ snap[w] = NoSnap
    /\ job # NoJob
    /\ job.status = "pending"
    /\ job' = claimed(job)
    /\ snap' = [snap EXCEPT ![w] = [doc |-> claimed(job), fresh |-> TRUE]]
    /\ UNCHANGED <<video, queue, now, last, reqs, workers, jobs, found>>

\* at a stage boundary the worker reads the job again and stops when it is
\* cancelled, finished or gone
workerCheck(w) ==
    /\ snap[w] # NoSnap
    /\ ~snap[w].fresh
    /\ snap' = [snap EXCEPT
                  ![w] = IF job = NoJob \/ job.status # "processing"
                         THEN NoSnap
                         ELSE [doc |-> job, fresh |-> TRUE]]
    /\ UNCHANGED <<job, video, queue, now, last, reqs, workers, jobs, found>>

\* the stage the worker runs reports progress: updateProgress on the document
\* the worker holds
workerReportProgress(w) ==
    /\ snap[w] # NoSnap
    /\ snap[w].fresh
    /\ LET loaded == snap[w].doc
           d      == updateProgressDoc(loaded, currentStage(loaded),
                                       ReportedProgress, "processing")
       IN  /\ d # loaded
           /\ job' = saveModified(d, loaded, job)
           /\ snap' = [snap EXCEPT
                         ![w] = IF job = NoJob THEN NoSnap
                                ELSE [doc |-> preSave(d), fresh |-> TRUE]]
    /\ UNCHANGED <<video, queue, now, last, reqs, workers, jobs, found>>

\* the stage the worker ran has succeeded: markStageComplete on the document
\* the worker holds
workerSaveStage(w) ==
    /\ snap[w] # NoSnap
    /\ snap[w].fresh
    /\ LET loaded == snap[w].doc
           d      == markStageCompleteDoc(loaded, currentStage(loaded))
       IN  /\ job' = saveModified(d, loaded, job)
           /\ snap' = [snap EXCEPT
                         ![w] = IF job = NoJob THEN NoSnap
                                ELSE [doc |-> preSave(d), fresh |-> FALSE]]
    /\ UNCHANGED <<video, queue, now, last, reqs, workers, jobs, found>>

\* the stage the worker ran has failed: markStageFailed on the document the
\* worker holds; the worker is done with the job
workerFailStage(w, error) ==
    /\ snap[w] # NoSnap
    /\ snap[w].fresh
    /\ LET loaded == snap[w].doc
           d      == markStageFailedDoc(loaded, currentStage(loaded), error)
       IN  job' = saveModified(d, loaded, job)
    /\ snap' = [snap EXCEPT ![w] = NoSnap]
    /\ UNCHANGED <<video, queue, now, last, reqs, workers, jobs, found>>

-----------------------------------------------------------------------------
(* Callers that hold their own copy of the job document *)

\* a caller reads the job: ProcessingJob.findOne(...) gives it a document of
\* its own
holderLoad(w) ==
    /\ snap[w] = NoSnap
    /\ job # NoJob
    /\ snap' = [snap EXCEPT ![w] = [doc |-> job, fresh |-> TRUE]]
    /\ UNCHANGED <<job, video, queue, now, last, reqs, workers, jobs, found>>

\* updateProgress(stage, progress, status) on the caller's document: the
\* weighted sum is taken over the stages of that document, and save() writes
\* the paths the call has changed
holderUpdateProgress(w, stage, progress, status) ==
    /\ snap[w] # NoSnap
    /\ LET loaded == snap[w].doc
           d      == updateProgressDoc(loaded, stage, progress, status)
       IN  /\ job' = saveModified(d, loaded, job)
           /\ last' = Result("updateProgress", saveResult(d), loaded.status, None)
    /\ snap' = [snap EXCEPT ![w] = NoSnap]
    /\ UNCHANGED <<video, queue, now, reqs, workers, jobs, found>>

\* markStageComplete(stage) on the caller's document
holderMarkStageComplete(w, stage) ==
    /\ snap[w] # NoSnap
    /\ LET loaded == snap[w].doc
           d      == markStageCompleteDoc(loaded, stage)
       IN  /\ job' = saveModified(d, loaded, job)
           /\ last' = Result("markStageComplete", saveResult(d), loaded.status, None)
    /\ snap' = [snap EXCEPT ![w] = NoSnap]
    /\ UNCHANGED <<video, queue, now, reqs, workers, jobs, found>>

-----------------------------------------------------------------------------
(* Expiry: the clock, the TTL index on expiresAt, lookups *)

expired(d) == d.expiresAt <= now

tick(days) ==
    /\ now + days <= MaxClock
    /\ now' = now + days
    /\ last' = Result("tick", "ok", job.status, None)
    /\ UNCHANGED <<job, video, queue, reqs, workers, snap, jobs, found>>

\* a TTL index that covers finished jobs only
ttlSweepFinishedOnly ==
    LET gone == job # NoJob /\ expired(job)
                  /\ job.status \in {"completed", "failed", "cancelled"}
    IN  /\ job' = IF gone THEN NoJob ELSE job
        /\ reqs' = IF gone THEN forgetReqs(reqs) ELSE reqs
        /\ workers' = IF gone THEN forgetWorkers(workers) ELSE workers
        /\ last' = Result("ttlSweep", "ok", job.status, None)
        /\ UNCHANGED <<video, queue, now, snap, jobs, found>>

\* the database's TTL monitor, which runs periodically: index: { expireAfterSeconds: 0 }
ttlSweep ==
    /\ job' = IF job # NoJob /\ expired(job) THEN NoJob ELSE job
    /\ reqs' = IF job # NoJob /\ expired(job) THEN forgetReqs(reqs) ELSE reqs
    /\ workers' = IF job # NoJob /\ expired(job) THEN forgetWorkers(workers) ELSE workers
    /\ last' = Result("ttlSweep", "ok", job.status, None)
    /\ UNCHANGED <<video, queue, now, snap, jobs, found>>

\* ProcessingJob.findOne({ videoId }).lean() of videoController.getVideoById
getJob ==
    /\ last' = Result("getJob", IF job = NoJob THEN "null" ELSE "found", job.status, None)
    /\ UNCHANGED <<job, video, queue, now, reqs, workers, snap, jobs, found>>

-----------------------------------------------------------------------------
(* Status endpoints *)

\* doc[name] of a stored document: undefined (None) for a path the schema does
\* not have, which is never stored
field(d, name) == IF name \in DOMAIN d THEN d[name] ELSE None

\* Math.round((completedSteps / totalSteps) * 100) over the records of `steps`
stepsPercentage(steps) ==
    LET totalSteps     == Cardinality(DOMAIN steps)
        completedSteps == Cardinality({k \in DOMAIN steps : steps[k].status = "completed"})
    IN  (200 * completedSteps + totalSteps) \div (2 * totalSteps)

\* the response of a status endpoint: Object.keys(steps) throws a TypeError on
\* undefined, which the handler's catch answers with 500
statusResponse(op, d) ==
    LET steps == field(d, "steps")
    IN  IF steps = None
        THEN [op |-> op, res |-> "500", pre |-> d.status, emitted |-> None,
              progress |-> None]
        ELSE [op |-> op, res |-> "200", pre |-> d.status, emitted |-> None,
              progress |-> stepsPercentage(steps)]

\* processingController.getProcessingStatus
getProcessingStatus ==
    /\ last' = IF job = NoJob
               THEN Result("getProcessingStatus", "404", "absent", None)
               ELSE statusResponse("getProcessingStatus", job)
    /\ UNCHANGED <<job, video, queue, now, reqs, workers, snap, jobs, found>>

\* uploadController.getUploadProgress
getUploadProgress ==
    /\ last' = IF job = NoJob \/ video = "absent"
               THEN Result("getUploadProgress", "404", job.status, None)
               ELSE statusResponse("getUploadProgress", job)
    /\ UNCHANGED <<job, video, queue, now, reqs, workers, snap, jobs, found>>

-----------------------------------------------------------------------------
(* Static methods *)

\* .sort({ priority: -1, createdAt: -1 })
pendingSortNewestFirst == << <<"priority", -1>>, <<"createdAt", -1>> >>

\* .sort({ priority: -1, createdAt: 1 }) of findPendingJobs
pendingSort == << <<"priority", -1>>, <<"createdAt", 1>> >>

\* the comparison of two documents under a sort specification: negative when
\* a comes first, positive when b comes first, 0 when the keys do not decide
RECURSIVE compare(_, _, _)
compare(a, b, sort) ==
    IF sort = <<>> THEN 0
    ELSE LET key == Head(sort)[1]
             dir == Head(sort)[2]
         IN  IF a[key] = b[key] THEN compare(a, b, Tail(sort))
             ELSE IF a[key] < b[key] THEN -dir ELSE dir

\* the positions in the collection that the query { status: 'pending' } selects,
\* with jobType added when one is given
pendingQuery(jobType) ==
    {i \in 1..Len(jobs) :
        /\ jobs[i].status = "pending"
        /\ jobType # None => jobs[i].jobType = jobType}

\* the orders in which find(query).sort(sort) can return the selected
\* documents: documents that the sort keys do not decide come in any order
sortedResults(selected, sort) ==
    {q \in [1..Cardinality(selected) -> selected] :
        /\ \A i, j \in DOMAIN q : i # j => q[i] # q[j]
        /\ \A i \in DOMAIN q :
              i + 1 \in DOMAIN q => compare(jobs[q[i]], jobs[q[i + 1]], sort) <= 0}

\* ProcessingJob.findPendingJobs(jobType)
findPendingJobs(jobType) ==
    /\ \E q \in sortedResults(pendingQuery(jobType), pendingSort) :
          found' = [jobType |-> jobType, docs |-> q, done |-> TRUE]
    /\ UNCHANGED <<job, video, queue, now, last, reqs, workers, snap, jobs>>

-----------------------------------------------------------------------------
(* The job document and its handlers, one call at a time *)

Next ==
    \/ \E f \in CreateInputs, m \in MaxRetriesInputs : create(f, m)
    \/ claim
    \/ \E u \in UpdateInputs : updateProgress(u[1], u[2], u[3])
    \/ \E s \in StageInputs : markStageComplete(s)
    \/ \E s \in StageInputs, e \in ErrorInputs : markStageFailed(s, e)
    \/ retry
    \/ cancelProcessing
    \/ cancelUpload
    \/ deleteVideo

Spec == Init /\ [][Next]_vars

(* Dispatch: concurrent startProcessing requests, the queue and its workers *)

NextDispatch ==
    \/ \E f \in CreateInputs : create(f, DefaultMaxRetries)
    \/ \E h \in BOOLEAN : uploadVideo(h)
    \/ \E r \in Reqs : spFindVideo(r)
    \/ \E r \in Reqs, f \in BOOLEAN : spFindJob(r, f)
    \/ \E r \in Reqs : spDeleteJob(r)
    \/ \E r \in Reqs : spSaveJob(r)
    \/ \E r \in Reqs : spSaveVideo(r)
    \/ \E r \in Reqs : spEnqueue(r)
    \/ \E w \in Workers : workerTake(w)
    \/ \E w \in Workers : workerAbort(w)
    \/ \E w \in Workers : workerComplete(w)
    \/ \E w \in Workers, e \in ErrorInputs : workerFail(w, e)
    \/ retry
    \/ cancelProcessing
    \/ deleteVideo

SpecDispatch == Init /\ [][NextDispatch]_vars

(* Expiry and lookups: the job's operations while time passes, the TTL monitor
   runs and clients look the job up *)

NextExpiry ==
    \/ create(RequiredFields, DefaultMaxRetries)
    \/ claim
    \/ \E s \in StageNames : markStageComplete(s)
    \/ \E s \in StageNames, e \in ErrorInputs : markStageFailed(s, e)
    \/ retry
    \/ cancelProcessing
    \/ \E d \in TickDays : tick(d)
    \/ ttlSweep
    \/ getJob
    \/ getProcessingStatus
    \/ getUploadProgress
    \/ deleteVideo

SpecExpiry == Init /\ [][NextExpiry]_vars

(* Snapshots: workers that hold the job document while a client cancels *)

NextSnapshot ==
    \/ create(RequiredFields, DefaultMaxRetries)
    \/ \E w \in Workers : workerLoad(w)
    \/ \E w \in Workers : workerCheck(w)
    \/ \E w \in Workers : workerReportProgress(w)
    \/ \E w \in Workers : workerSaveStage(w)
    \/ \E w \in Workers, e \in ErrorInputs : workerFailStage(w, e)
    \/ retry
    \/ cancelProcessing
    \/ cancelUpload

SpecSnapshot == Init /\ [][NextSnapshot]_vars

(* Concurrent stage calls: callers that each load the job and then call
   updateProgress or markStageComplete on their own document *)

NextConcurrent ==
    \/ create(RequiredFields, DefaultMaxRetries)
    \/ \E w \in Workers : holderLoad(w)
    \/ \E w \in Workers, s \in StageNames :
           holderUpdateProgress(w, s, ReportedProgress, "processing")
    \/ \E w \in Workers, s \in StageNames : holderMarkStageComplete(w, s)

SpecConcurrent == Init /\ [][NextConcurrent]_vars

(* Pending jobs: findPendingJobs on every collection of up to MaxJobs documents *)

InitPending ==
    /\ job = NoJob
    /\ video = "uploaded"
    /\ queue = 0
    /\ now = 0
    /\ last = Result("init", "ok", "absent", None)
    /\ reqs = [r \in Reqs |-> NewReq]
    /\ workers = [w \in Workers |-> "idle"]
    /\ snap = [w \in Workers |-> NoSnap]
    /\ jobs \in UNION {[1..n -> JobDocs] : n \in 0..MaxJobs}
    /\ found = NoResult

NextPending ==
    \E t \in JobTypeInputs \cup {None} : findPendingJobs(t)

SpecPending == InitPending /\ [][NextPending]_vars

-----------------------------------------------------------------------------
(* Properties *)

CancelOps == {"cancelProcessing", "cancelUpload"}

AllStagesCompleted(d) == \A s \in StageNames : d.stages[s].status = "completed"

\* round(0.10*upload + 0.60*transcription + 0.30*summarization) in exact arithmetic
ExactRound(stages) ==
    (stages["upload"].progress + 6 * stages["transcription"].progress
       + 3 * stages["summarization"].progress + 5) \div 10

\* C1: whatever operations have run on a job, its overallProgress is an integer
\* in 0..100 and equals the rounded weighted sum of its current stage progresses.
\* (Spec)
OverallProgressIsRoundedWeightedSum ==
    job # NoJob =>
        /\ job.overallProgress \in 0..100
        /\ job.overallProgress = ExactRound(job.stages)

\* C2: retryCount stays within 0..maxRetries; once it equals maxRetries,
\* canRetry is false and retry fails with an error and leaves the job as it is.
\* (Spec)
RetryCountBounded ==
    [][ /\ job' # NoJob =>
              /\ job'.retryCount >= 0
              /\ job'.retryCount <= job'.maxRetries
              /\ (job'.retryCount = job'.maxRetries => ~canRetry(job'))
        /\ (last'.op = "retry" /\ job # NoJob /\ job.retryCount = job.maxRetries) =>
              (last'.res = "Error" /\ job' = job)
      ]_vars

\* C2 witness: a retry has just been refused on a failed job that used up the
\* default three retries
RetryRefusedWhenExhausted ==
    /\ last.op = "retry"
    /\ last.res = "Error"
    /\ job # NoJob
    /\ job.status = "failed"
    /\ job.maxRetries = DefaultMaxRetries
    /\ job.retryCount = job.maxRetries

\* C3: of the startProcessing requests that found the same job pending, at most
\* one succeeds; the others are rejected. (SpecDispatch; no call other than the
\* requests' own steps and the workers' has run since the job was created)
OneClaimantSucceeds ==
    ~ \E r1, r2 \in Reqs :
        /\ r1 # r2
        /\ last.op = "create"
        /\ reqs[r1].pc = "done" /\ reqs[r1].res = "200" /\ reqs[r1].seen = "pending"
        /\ reqs[r2].pc = "done" /\ reqs[r2].res = "200" /\ reqs[r2].seen = "pending"

\* C4: at most one worker is executing the stored job at any time.
\* (SpecDispatch)
AtMostOneActiveWorker ==
    Cardinality({w \in Workers : workers[w] = "active"}) <= 1

\* C4 witness: two startProcessing requests have each dispatched the same
\* pending job, the queue has been emptied, and one worker runs the job
SecondEntryNotExecuted ==
    /\ last.op = "create"
    /\ \E r1, r2 \in Reqs :
          /\ r1 # r2
          /\ reqs[r1].res = "200" /\ reqs[r1].seen = "pending"
          /\ reqs[r2].res = "200" /\ reqs[r2].seen = "pending"
    /\ queue = 0
    /\ \E w \in Workers : workers[w] = "active"
    /\ job # NoJob /\ job.status = "processing"

\* C5: cancel is idempotent: on a pending or processing job it succeeds and the
\* job is cancelled; on a cancelled job it succeeds and the job stays cancelled;
\* on a completed job it fails and the job stays completed. (Spec)
CancelIsIdempotent ==
    last.op \in CancelOps =>
        /\ last.pre \in {"pending", "processing"} =>
              (last.res = "200" /\ job.status = "cancelled")
        /\ last.pre = "cancelled" => (last.res = "200" /\ job.status = "cancelled")
        /\ last.pre = "completed" => (last.res # "200" /\ job.status = "completed")

\* C6: on a failed or completed job every cancel entry point rejects the request
\* and leaves the status as it was. (Spec)
CancelRejectedUnlessPendingOrProcessing ==
    (last.op \in CancelOps /\ last.pre \in {"failed", "completed"}) =>
        (last.res # "200" /\ job.status = last.pre)

\* C7: a job whose three stages are all completed has overallProgress 100 and
\* status completed, with completedAt set. (Spec)
AllStagesCompletedMeansCompleted ==
    (job # NoJob /\ last.op = "markStageComplete" /\ last.res = "ok"
       /\ AllStagesCompleted(job)) =>
        (job.overallProgress = 100 /\ job.status = "completed" /\ job.completedAt)

\* C7 as amended: when a saved markStageComplete leaves all three stages
\* completed, a job whose status was processing becomes completed with
\* completedAt set, a job in any other status keeps its status, and
\* overallProgress is 100 when every stage's progress is 100. (Spec)
AllStagesCompletedCompletesProcessingJob ==
    (job # NoJob /\ last.op = "markStageComplete" /\ last.res = "ok"
       /\ AllStagesCompleted(job)) =>
        /\ IF last.pre = "processing"
           THEN job.status = "completed" /\ job.completedAt
           ELSE job.status = last.pre
        /\ (\A s \in StageNames : job.stages[s].progress = 100) =>
              job.overallProgress = 100

\* C7 witness: the last of the three stages has just been completed on a
\* processing job
LastStageCompletedWhileProcessing ==
    /\ job # NoJob
    /\ last.op = "markStageComplete" /\ last.res = "ok" /\ last.pre = "processing"
    /\ AllStagesCompleted(job)
    /\ job.status = "completed"
    /\ job.overallProgress = 100

\* C8: once expiresAt has elapsed, no lookup returns the job. (SpecExpiry)
ExpiredJobIsNeverFound ==
    (last.op = "getJob" /\ last.res = "found") => ~expired(job)

\* C8 as amended: once expiresAt has elapsed and the TTL monitor has run, the
\* job is gone whatever its status was, and lookups return nothing; until then
\* a lookup still returns it. The monitor removes a job only when its expiresAt
\* has elapsed, and no operation on a job moves expiresAt. (SpecExpiry)
ExpiredJobIsGoneAfterSweep ==
    [][ /\ last'.op = "ttlSweep" =>
              /\ (job # NoJob /\ expired(job)) => job' = NoJob
              /\ (job # NoJob /\ ~expired(job)) => job' = job
        /\ last'.op = "getJob" => (last'.res = "found" <=> job # NoJob)
        /\ (job # NoJob /\ job' # NoJob) => job'.expiresAt = job.expiresAt
      ]_vars

\* C8 witness: the TTL monitor has just removed an expired job that was still
\* processing
SweepRemovedProcessingJob ==
    /\ last.op = "ttlSweep"
    /\ last.pre = "processing"
    /\ job = NoJob

\* C9: creating a job with a videoId succeeds and stores a pending job with
\* overallProgress 0, retryCount 0 and every stage pending at progress 0;
\* without a videoId it fails with a ValidationError and stores nothing.
\* (SpecDispatch; create is the constructor and save, startProcessing creates
\* a job when it finds none)
CreateWithVideoIdSucceeds ==
    /\ last.op = "create" => (last.res = "ok" /\ job # NoJob)
    /\ (last.op = "create" /\ \A r \in Reqs : reqs[r].res # "200") =>
          /\ job # NoJob
          /\ job.status = "pending"
          /\ job.overallProgress = 0
          /\ job.retryCount = 0
          /\ \A s \in StageNames : job.stages[s] = DefaultStage
    /\ last.op = "createNoVideoId" => (last.res = "ValidationError" /\ job = NoJob)
    /\ \A r \in Reqs :
          (reqs[r].pc = "done" /\ reqs[r].seen = "absent") => reqs[r].res = "200"

\* C10: a job's status changes only along pending -> processing,
\* processing -> completed | failed | cancelled, pending -> cancelled and
\* failed -> pending (by retry); completed and cancelled are never left. (Spec)
StatusTransitions ==
    { <<"pending", "processing">>, <<"processing", "completed">>,
      <<"processing", "failed">>, <<"processing", "cancelled">>,
      <<"pending", "cancelled">>, <<"failed", "pending">> }

StatusFollowsStateMachine ==
    [][ (job # NoJob /\ job' # NoJob /\ job'.status # job.status) =>
            /\ <<job.status, job'.status>> \in StatusTransitions
            /\ (job.status = "failed" => last'.op = "retry")
      ]_vars

\* C11: retry on a failed job with retryCount < maxRetries increments
\* retryCount by exactly 1, clears error, sets status pending and puts the job
\* back in the queue. (SpecDispatch)
RetryReenqueues ==
    [][ (retry /\ canRetry(job)) =>
            /\ job'.retryCount = job.retryCount + 1
            /\ job'.error = NoError
            /\ job'.status = "pending"
            /\ queue' > 0
      ]_vars

\* C12: canRetry is true exactly when the job is failed and retryCount is below
\* maxRetries; retry succeeds exactly then, and on a pending, processing,
\* completed or cancelled job it fails with an error and leaves the job as it
\* is. (Spec)
RetryOnlyWhenFailedAndNotExhausted ==
    [][ retry =>
            /\ canRetry(job) <=> (job.status = "failed" /\ job.retryCount < job.maxRetries)
            /\ last'.res = "ok" <=> (job.status = "failed" /\ job.retryCount < job.maxRetries)
            /\ job.status # "failed" => (last'.res = "Error" /\ job' = job)
      ]_vars

\* C12 witness: a retry has just been refused on a cancelled job that has
\* retries left
RetryRefusedOnCancelledJob ==
    /\ last.op = "retry"
    /\ last.res = "Error"
    /\ last.pre = "cancelled"
    /\ job # NoJob
    /\ job.status = "cancelled"
    /\ job.retryCount < job.maxRetries

\* C13: updateProgress or markStageComplete with a stage name the pipeline does
\* not have fails with a ValidationError and leaves the job unchanged. (Spec)
UnknownStageIsRejected ==
    [][ \A s \in StageInputs \ StageNames :
            (markStageComplete(s) \/ updateProgress(s, 100, "completed")) =>
                (last'.res = "ValidationError" /\ job' = job)
      ]_vars

\* C14: on a cancelled job every updateProgress and markStageComplete call is
\* rejected and changes no stage record and not overallProgress. (Spec)
AdvanceAfterCancelIsRejected ==
    [][ ( /\ job # NoJob
          /\ job.status = "cancelled"
          /\ \/ \E u \in UpdateInputs : updateProgress(u[1], u[2], u[3])
             \/ \E s \in StageInputs : markStageComplete(s) ) =>
            (last'.res # "ok" /\ job' = job)
      ]_vars

ErrorOnlyWhileFailed ==
    job # NoJob => (job.error # NoError <=> job.status = "failed")

StatusOps == {"getProcessingStatus", "getUploadProgress"}

\* C17: for a stored job (of a stored video) the status endpoints answer with
\* the job's stored overallProgress as the progress. (SpecExpiry)
StatusEndpointsReportOverallProgress ==
    (last.op \in StatusOps /\ job # NoJob /\ video # "absent") =>
        (last.res = "200" /\ last.progress = job.overallProgress)

\* C18: a worker that saves its stage completion on a job that was cancelled
\* while the stage ran never changes the job's status away from cancelled.
\* (SpecSnapshot)
CancelledJobStaysCancelledUnderWorker ==
    [][ \A w \in Workers :
            (workerSaveStage(w) /\ job # NoJob /\ job.status = "cancelled") =>
                job'.status = "cancelled"
      ]_vars

FindPendingJobsOrdered ==
    found.done =>
        LET q == found.docs
        IN  /\ \A i \in DOMAIN q :
                  /\ jobs[q[i]].status = "pending"
                  /\ found.jobType # None => jobs[q[i]].jobType = found.jobType
            /\ \A k \in 1..Len(jobs) :
                  (jobs[k].status = "pending"
                     /\ (found.jobType # None => jobs[k].jobType = found.jobType)) =>
                      \E i \in DOMAIN q : q[i] = k
            /\ \A i, j \in DOMAIN q :
                  i < j =>
                      \/ jobs[q[i]].priority > jobs[q[j]].priority
                      \/ /\ jobs[q[i]].priority = jobs[q[j]].priority
                         /\ jobs[q[i]].createdAt <= jobs[q[j]].createdAt

\* C20 witness: a query for one jobType returned two pending jobs of equal
\* priority in the order of their createdAt, against the order in which they
\* are stored, and left out a job that is not pending
OlderPendingJobComesFirst ==
    /\ found.done
    /\ found.jobType # None
    /\ Len(found.docs) = 2
    /\ found.docs[1] > found.docs[2]
    /\ jobs[found.docs[1]].priority = jobs[found.docs[2]].priority
    /\ jobs[found.docs[1]].createdAt < jobs[found.docs[2]].createdAt
    /\ \E k \in 1..Len(jobs) : jobs[k].status # "pending"

\* C21: dispatching a job that is already enqueued adds no second entry: the
\* job is in its queue at most once. (SpecDispatch)
AtMostOneQueueEntry ==
    queue <= 1

\* C21 witness: two startProcessing requests have both dispatched the same
\* pending job, which no worker has taken yet, and the queue holds it once
SecondDispatchAddedNothing ==
    /\ \E r1, r2 \in Reqs :
          /\ r1 # r2
          /\ reqs[r1].pc = "done" /\ reqs[r1].res = "200"
          /\ reqs[r2].pc = "done" /\ reqs[r2].res = "200"
    /\ last.op = "create"
    /\ job # NoJob /\ job.status = "pending"
    /\ \A w \in Workers : workers[w] = "idle"
    /\ queue = 1

\* C22: a change of the job's status is published on the video's topic once it
\* is stored; here for the change to cancelled, which the cancel handlers make
\* and publish as processing-cancelled. (Spec)
CancelledJobIsPublished ==
    [][ (job # NoJob /\ job' # NoJob
           /\ job.status # "cancelled" /\ job'.status = "cancelled") =>
            last'.emitted = "processing-cancelled"
      ]_vars

PipelineStages == {"upload", "transcription", "summarization", "cleanup"}

\* C24: the stage keys of every job are exactly upload, transcription,
\* summarization and cleanup. (Spec)
StageKeysAreThePipelineStages ==
    job # NoJob => DOMAIN job.stages = PipelineStages

\* C25: when two calls of updateProgress or markStageComplete on different
\* stages run concurrently, each on its own copy of the job, the stored
\* overallProgress is, once no call is outstanding, the weighted sum of the
\* stored stage progresses. (SpecConcurrent)
OverallProgressIsWeightedSumOfStoredStages ==
    (job # NoJob /\ \A w \in Workers : snap[w] = NoSnap)
        => job.overallProgress = WeightedProgress(job.stages)

\* the stored ProcessingJob documents of the video
JobsOfVideo == (IF job = NoJob THEN 0 ELSE 1) + Len(jobs)

\* C26: after any interleaving of startProcessing requests there is at most
\* one ProcessingJob of the video; two requests that both found no job do not
\* both create one. (SpecDispatch)
AtMostOneJobPerVideo == JobsOfVideo <= 1

\* C26 witness: two startProcessing requests both found no job, both went on
\* to create one and both have finished; no second job is stored
BothRequestsSawNoJob ==
    /\ \A r \in Reqs : reqs[r].pc = "done" /\ reqs[r].seen = "absent"
                           /\ reqs[r].res = "500"
    /\ JobsOfVideo <= 1

\* C27: a cancel is all-or-nothing with respect to its response: when it
\* answers with an error the job's status is what it was before the request,
\* and when it answers with success the job is cancelled, the video's status
\* is cancelled and processing-cancelled has been emitted. (Spec)
CancelIsAllOrNothing ==
    last.op \in CancelOps =>
        /\ last.res # "200" =>
               IF job = NoJob THEN last.pre = "absent" ELSE job.status = last.pre
        /\ last.res = "200" =>
               /\ job # NoJob /\ job.status = "cancelled"
               /\ video \in {"cancelled", "absent"}
               /\ last.emitted = "processing-cancelled"

\* C28: the completion at save time applies to processing jobs only: no call
\* on a job whose status is pending, failed or cancelled leaves it completed,
\* and markStageComplete on such a job leaves its status as it was, even when
\* every stage is then completed. (SpecExpiry)
OnlyProcessingJobsAutoComplete ==
    (job # NoJob /\ last.pre \in {"pending", "failed", "cancelled"}) =>
        /\ job.status # "completed"
        /\ last.op = "markStageComplete" => job.status = last.pre

\* C28 witness: markStageComplete has just completed the last open stage of a
\* cancelled job, which stays cancelled
AllStagesCompletedWhileCancelled ==
    /\ job # NoJob
    /\ last.op = "markStageComplete" /\ last.res = "ok" /\ last.pre = "cancelled"
    /\ AllStagesCompleted(job)
    /\ job.status = "cancelled" /\ ~job.completedAt

\* C29: startProcessing without forceRestart on a processing or completed job
\* is rejected and changes nothing; with forceRestart the job that was found
\* has been deleted and the request stores exactly one fresh pending job with
\* retryCount 0 in its place and goes on to enqueue it. (SpecDispatch)
ForceRestartReplacesJob ==
    [][ \A r \in Reqs :
          /\ (reqs[r].pc = "findJob" /\ reqs'[r].res = "400")
                => /\ job # NoJob /\ job.status \in {"processing", "completed"}
                   /\ UNCHANGED <<job, jobs, video, queue>>
          /\ (reqs[r].pc = "saveJob" /\ reqs[r].seen # "absent"
                /\ reqs'[r].pc # "saveJob")
                => /\ job' # NoJob
                   /\ job'.status = "pending" /\ job'.retryCount = 0
                   /\ JobsOfVideo' = 1
                   /\ reqs'[r].pc = "saveVideo"
      ]_vars

\* C30: a retry changes the job's status, retryCount and error and nothing
\* else: the stages, with the failed one still failed, and overallProgress
\* are what they were. (SpecExpiry)
RetryChangesOnlyStatusCountAndError ==
    [][ (job # NoJob /\ job' # NoJob /\ job'.retryCount # job.retryCount) =>
           /\ last'.op = "retry"
           /\ job' = [job EXCEPT !.status = "pending",
                                  !.retryCount = job.retryCount + 1,
                                  !.error = NoError]
           /\ job'.stages = job.stages
           /\ job'.overallProgress = job.overallProgress
      ]_vars

\* C30 witness: a job with progress whose stage failed has just been retried:
\* it is pending again and the stage is still failed
RetriedJobKeepsFailedStage ==
    /\ job # NoJob
    /\ last.op = "retry" /\ last.res = "ok" /\ last.pre = "failed"
    /\ job.status = "pending" /\ job.retryCount >= 1 /\ job.error = NoError
    /\ \E s \in StageNames : job.stages[s].status = "failed"
    /\ job.overallProgress > 0

====
